---- MODULE Spec2Model ----
(***************************************************************************)
(* A model of reposcore/analyzer.py: the RepoAnalyzer object, its          *)
(* collector (collect_PRs_and_issues) and its scorer (calculate_scores).   *)
(*                                                                         *)
(* Representation.                                                         *)
(*  - A Python dict is a sequence of entries in insertion order; the keys  *)
(*    of a dict are pairwise different.                                    *)
(*  - `rate` is a float with one decimal place; it is kept in tenths       *)
(*    (rate 16.7 is the integer 167).                                      *)
(***************************************************************************)
EXTENDS Integers, Sequences, FiniteSets, TLC

VARIABLES
    participants,    \* self.participants: sequence of [name, activities]
    data_collected,  \* self._data_collected
    pc,              \* where collect_PRs_and_issues stands: idle, loop, done, aborted
    page,            \* the local `page` of collect_PRs_and_issues (0: not running yet)
    response,        \* the latest response to the running call: status code, no items, next link
    nreq,            \* number of requests sent so far
    received,        \* history: how often each item was delivered in a 200 response
    result           \* value returned by the latest call of calculate_scores, if any

vars == <<participants, data_collected, pc, page, response, nreq, received, result>>

----------------------------------------------------------------------------
(* Bounds of the model *)

\* largest count drawn for one bucket of a hand-made participants mapping
MaxCount == 4
\* largest number of participants of a hand-made mapping built from Profiles
MaxParticipants == 5
\* requests the forge answers during the life of one analyzer
MaxRequests == 2
\* items on one page
MaxItems == 2

----------------------------------------------------------------------------
(* Helpers *)

Min(a, b) == IF a <= b THEN a ELSE b
Max(a, b) == IF a >= b THEN a ELSE b
Abs(a) == IF a >= 0 THEN a ELSE 0 - a

RECURSIVE GCD(_, _)
GCD(a, b) == IF b = 0 THEN a ELSE GCD(b, a % b)

RECURSIVE IsPowerOfTwo(_)
IsPowerOfTwo(n) == IF n = 1 THEN TRUE ELSE IF n % 2 = 1 THEN FALSE ELSE IsPowerOfTwo(n \div 2)

\* mutant of Get: a missing key reads as 1
Get_DefaultOne(d, key, default) == IF key \in DOMAIN d THEN d[key] ELSE 1

\* dict.get(key, default)
Get(d, key, default) == IF key \in DOMAIN d THEN d[key] ELSE default

\* position of a key in a dict, 0 when absent
IndexOf(d, name) == IF \E i \in 1..Len(d) : d[i].name = name
                    THEN CHOOSE i \in 1..Len(d) : d[i].name = name
                    ELSE 0

BucketKeys == {"p_enhancement", "p_bug", "p_documentation",
               "i_enhancement", "i_bug", "i_documentation"}

----------------------------------------------------------------------------
(* calculate_scores *)

p_fb(activities) == Get(activities, "p_enhancement", 0) + Get(activities, "p_bug", 0)
p_d(activities) == Get(activities, "p_documentation", 0)
i_fb(activities) == Get(activities, "i_enhancement", 0) + Get(activities, "i_bug", 0)
i_d(activities) == Get(activities, "i_documentation", 0)

\* mutant of p_valid: the roles of p_fb and p_d exchanged
p_valid_Swapped(activities) ==
    p_d(activities) + Min(p_fb(activities), 3 * Max(1, p_d(activities)))

p_valid(activities) ==
    p_fb(activities) + Min(p_d(activities), 3 * Max(1, p_fb(activities)))
\* mutant of i_valid: no cap on the issues
i_valid_Uncapped(activities) == i_fb(activities) + i_d(activities)

i_valid(activities) ==
    Min(i_fb(activities) + i_d(activities), 4 * p_valid(activities))

p_fb_at(activities) == Min(p_fb(activities), p_valid(activities))
p_d_at(activities) == p_valid(activities) - p_fb(activities)
i_fb_at(activities) == Min(i_fb(activities), i_valid(activities))
\* mutant of i_d_at: i_fb subtracted instead of i_fb_at
i_d_at_Raw(activities) == i_valid(activities) - i_fb(activities)

i_d_at(activities) == i_valid(activities) - i_fb_at(activities)

\* mutant of S: a documentation issue weighs 2
S_HeavyDocIssue(activities) ==
    3 * p_fb_at(activities) + 2 * p_d_at(activities)
      + 2 * i_fb_at(activities) + 2 * i_d_at(activities)

\* S of one participant
S(activities) ==
    3 * p_fb_at(activities) + 2 * p_d_at(activities)
      + 2 * i_fb_at(activities) + 1 * i_d_at(activities)

\* scores[participant] before the rate is added
Breakdown(activities) ==
    ("feat/bug PR" :> 3 * p_fb_at(activities)) @@
    ("document PR" :> 2 * p_d_at(activities)) @@
    ("feat/bug issue" :> 2 * i_fb_at(activities)) @@
    ("document issue" :> 1 * i_d_at(activities)) @@
    ("total" :> S(activities))

RECURSIVE SumTotals(_)
SumTotals(scores) ==
    IF scores = <<>> THEN 0
    ELSE Head(scores).score["total"] + SumTotals(Tail(scores))

\* (total / total_score_sum) * 100 lies exactly between two one-decimal values
IsTie(total, total_score_sum) ==
    2 * ((1000 * total) % total_score_sum) = total_score_sum

\* such a tie is computed exactly in binary floating point iff total / total_score_sum
\* is a dyadic rational; otherwise the two roundings of the float arithmetic
\* decide on which side of the tie the float lies
ExactTie(total, total_score_sum) ==
    /\ IsTie(total, total_score_sum)
    /\ IsPowerOfTwo(total_score_sum \div GCD(Abs(total), total_score_sum))

InexactTie(total, total_score_sum) ==
    /\ total_score_sum > 0
    /\ IsTie(total, total_score_sum)
    /\ ~ExactTie(total, total_score_sum)

\* mutant of Round1: the second decimal is cut off
Round1_Truncated(total, total_score_sum, up) == (1000 * total) \div total_score_sum

\* round(rate, 1) in tenths, for rate = (total / total_score_sum) * 100;
\* round() rounds an exact tie to the even digit; `up` is the side an inexact
\* tie falls on
Round1(total, total_score_sum, up) ==
    LET n == 1000 * total
        q == n \div total_score_sum
        r == n % total_score_sum
    IN  IF 2 * r < total_score_sum THEN q
        ELSE IF 2 * r > total_score_sum THEN q + 1
        ELSE IF ExactTie(total, total_score_sum)
             THEN (IF q % 2 = 0 THEN q ELSE q + 1)
             ELSE (IF up THEN q + 1 ELSE q)

Rate(total, total_score_sum, up) ==
    IF total_score_sum > 0 THEN Round1(total, total_score_sum, up) ELSE 0

\* mutant of InsertByTotal: an entry goes before the entries with its own total
RECURSIVE InsertByTotal_BeforeEqual(_, _)
InsertByTotal_BeforeEqual(e, s) ==
    IF s = <<>> THEN <<e>>
    ELSE IF Head(s).score["total"] > e.score["total"]
         THEN <<Head(s)>> \o InsertByTotal_BeforeEqual(e, Tail(s))
         ELSE <<e>> \o s

\* sorted(..., key=total, reverse=True) is stable: an entry goes behind every
\* entry whose total is at least its own
RECURSIVE InsertByTotal(_, _)
InsertByTotal(e, s) ==
    IF s = <<>> THEN <<e>>
    ELSE IF Head(s).score["total"] >= e.score["total"]
         THEN <<Head(s)>> \o InsertByTotal(e, Tail(s))
         ELSE <<e>> \o s

RECURSIVE SortedByTotal(_)
SortedByTotal(s) ==
    IF s = <<>> THEN <<>>
    ELSE InsertByTotal(s[Len(s)], SortedByTotal(SubSeq(s, 1, Len(s) - 1)))

\* totals whose rate is an inexact tie
InexactTieTotals(parts) ==
    LET scores == [i \in 1..Len(parts) |->
                     [name |-> parts[i].name, score |-> Breakdown(parts[i].activities)]]
        total_score_sum == SumTotals(scores)
    IN  {scores[i].score["total"] : i \in {j \in 1..Len(parts) :
            InexactTie(scores[j].score["total"], total_score_sum)}}

\* the value calculate_scores returns for self.participants = parts
calculate_scores(parts, ups) ==
    LET scores == [i \in 1..Len(parts) |->
                     [name |-> parts[i].name, score |-> Breakdown(parts[i].activities)]]
        total_score_sum == SumTotals(scores)
        rated == [i \in 1..Len(parts) |->
                     [name |-> scores[i].name,
                      score |-> scores[i].score @@
                                ("rate" :> Rate(scores[i].score["total"], total_score_sum,
                                                scores[i].score["total"] \in DOMAIN ups
                                                  /\ ups[scores[i].score["total"]]))]]
    IN  SortedByTotal(rated)

NoResult == [returned |-> FALSE, scores |-> <<>>]

CalculateScores ==
    /\ pc # "loop"
    /\ \E ups \in [InexactTieTotals(participants) -> BOOLEAN] :
          result' = [returned |-> TRUE, scores |-> calculate_scores(participants, ups)]
    /\ UNCHANGED <<participants, data_collected, pc, page, response, nreq, received>>

----------------------------------------------------------------------------
(* collect_PRs_and_issues *)

\* item.get('user', {}).get('login', ...) finds no login
NoLogin == "<no login>"

\* The items the forge can deliver. pull_request: the key is present;
\* merged_at: pull_request.merged_at is set; state_reason "None" is Python's None;
\* labels: the name of every label, "" for a label without a name.
Items ==
    << [login |-> "alice", pull_request |-> TRUE,  merged_at |-> TRUE,
        state_reason |-> "None", labels |-> <<"bug">>],
       [login |-> "alice", pull_request |-> TRUE,  merged_at |-> FALSE,
        state_reason |-> "None", labels |-> <<"enhancement">>],
       [login |-> "bob",   pull_request |-> FALSE, merged_at |-> FALSE,
        state_reason |-> "None", labels |-> <<"BUG", "question">>],
       [login |-> "bob",   pull_request |-> FALSE, merged_at |-> FALSE,
        state_reason |-> "not_planned", labels |-> <<"bug">>],
       [login |-> "alice", pull_request |-> FALSE, merged_at |-> FALSE,
        state_reason |-> "completed", labels |-> <<"Documentation", "enhancement">>],
       [login |-> NoLogin, pull_request |-> FALSE, merged_at |-> FALSE,
        state_reason |-> "reopened", labels |-> <<"enhancement", "">>] >>

\* an item is delivered by its number in Items
ItemIds == DOMAIN Items

\* pages of at most MaxItems items
Pages == UNION {[1..n -> ItemIds] : n \in 1..MaxItems}

StatusCodes == {200, 403, 500}

\* str.lower() on the label names of Items
Lower(name) ==
    CASE name = "BUG" -> "bug"
      [] name = "Documentation" -> "documentation"
      [] OTHER -> name

author(item) == IF item.login = NoLogin THEN "Unknown" ELSE item.login

\* [label.get('name', '').lower() for label in labels if label.get('name')]
RECURSIVE label_names(_)
label_names(labels) ==
    IF labels = <<>> THEN <<>>
    ELSE IF Head(labels) # "" THEN <<Lower(Head(labels))>> \o label_names(Tail(labels))
         ELSE label_names(Tail(labels))

\* for label in label_names: key = prefix + label; if key in activities: += 1
RECURSIVE CountLabels(_, _, _)
CountLabels(activities, prefix, names) ==
    IF names = <<>> THEN activities
    ELSE LET key == prefix \o Head(names)
         IN  CountLabels(IF key \in DOMAIN activities
                         THEN [activities EXCEPT ![key] = @ + 1]
                         ELSE activities,
                         prefix, Tail(names))

\* mutant of CountsAsPR: merged_at is not looked at
CountsAsPR_AnyPR(item) == item.pull_request

\* the item counts: a merged pull request ...
CountsAsPR(item) == item.pull_request /\ item.merged_at
\* ... or an issue that is open, reopened or completed
CountsAsIssue(item) ==
    ~item.pull_request /\ item.state_reason \in {"completed", "reopened", "None"}

\* the body of `for item in items`
ProcessItem(parts, item) ==
    LET known == IF IndexOf(parts, author(item)) = 0
                 THEN Append(parts, [name |-> author(item),
                                     activities |-> [k \in BucketKeys |-> 0]])
                 ELSE parts
        at == IndexOf(known, author(item))
        names == label_names(item.labels)
    IN  IF CountsAsPR(item)
        THEN [known EXCEPT ![at].activities = CountLabels(@, "p_", names)]
        ELSE IF CountsAsIssue(item)
        THEN [known EXCEPT ![at].activities = CountLabels(@, "i_", names)]
        ELSE known

RECURSIVE ProcessItems(_, _)
ProcessItems(parts, items) ==
    IF items = <<>> THEN parts
    ELSE ProcessItems(ProcessItem(parts, Items[Head(items)]), Tail(items))

RECURSIVE Deliver(_, _)
Deliver(bag, items) ==
    IF items = <<>> THEN bag
    ELSE Deliver([bag EXCEPT ![Head(items)] = @ + 1], Tail(items))

\* no response yet
NoResponse == [status_code |-> 0, empty |-> TRUE, next |-> FALSE]

\* the call of collect_PRs_and_issues: page = 1
Collect_Begin ==
    /\ pc # "loop"
    /\ nreq < MaxRequests
    /\ pc' = "loop"
    /\ page' = 1
    /\ response' = NoResponse
    /\ result' = NoResult
    /\ UNCHANGED <<participants, data_collected, nreq, received>>

\* mutant of Collect_Abort: the flag is not cleared
Collect_Abort_FlagKept(status_code) ==
    /\ pc = "loop"
    /\ nreq < MaxRequests
    /\ status_code # 200
    /\ nreq' = nreq + 1
    /\ response' = [status_code |-> status_code, empty |-> TRUE, next |-> FALSE]
    /\ pc' = "aborted"
    /\ UNCHANGED <<participants, data_collected, page, received, result>>

\* a response with status 403 or another status that is not 200: return
Collect_Abort(status_code) ==
    /\ pc = "loop"
    /\ nreq < MaxRequests
    /\ status_code # 200
    /\ nreq' = nreq + 1
    /\ response' = [status_code |-> status_code, empty |-> TRUE, next |-> FALSE]
    /\ data_collected' = FALSE
    /\ pc' = "aborted"
    /\ UNCHANGED <<participants, page, received, result>>

\* a 200 response without items: break
Collect_EmptyPage(next) ==
    /\ pc = "loop"
    /\ nreq < MaxRequests
    /\ nreq' = nreq + 1
    /\ response' = [status_code |-> 200, empty |-> TRUE, next |-> next]
    /\ pc' = "done"
    /\ UNCHANGED <<participants, data_collected, page, received, result>>

\* a 200 response with items: count them, then go on iff the link header has rel="next"
Collect_Page(items, next) ==
    /\ pc = "loop"
    /\ nreq < MaxRequests
    /\ nreq' = nreq + 1
    /\ response' = [status_code |-> 200, empty |-> FALSE, next |-> next]
    /\ participants' = ProcessItems(participants, items)
    /\ received' = Deliver(received, items)
    /\ IF next
       THEN page' = page + 1 /\ pc' = "loop"
       ELSE page' = page /\ pc' = "done"
    /\ UNCHANGED <<data_collected, result>>

----------------------------------------------------------------------------
(* The analyzer: __init__, then any sequence of calls *)

Init ==
    /\ participants = <<>>
    /\ data_collected = TRUE
    /\ pc = "idle"
    /\ page = 0
    /\ response = NoResponse
    /\ nreq = 0
    /\ received = [id \in ItemIds |-> 0]
    /\ result = NoResult

Next ==
    \/ Collect_Begin
    \/ \E status_code \in StatusCodes : Collect_Abort(status_code)
    \/ \E next \in BOOLEAN : Collect_EmptyPage(next)
    \/ \E items \in Pages, next \in BOOLEAN : Collect_Page(items, next)
    \/ CalculateScores

Spec == Init /\ [][Next]_vars

----------------------------------------------------------------------------
(* The scorer alone: calculate_scores on a participants mapping that was   *)
(* assigned to the analyzer instead of collected                           *)

\* counts are drawn from -1 .. MaxCount (the two bug buckets from -1 .. 1);
\* a drawn -2 stands for a key the mapping does not have
DrawnActivities ==
    LET Wide == (0 - 2)..MaxCount
        Narrow == (0 - 2)..1
    IN  { [k \in {j \in BucketKeys : f[j] >= 0 - 1} |-> f[k]] :
            f \in [p_enhancement : Wide, p_bug : Narrow, p_documentation : Wide,
                   i_enhancement : Wide, i_bug : Narrow, i_documentation : Wide] }

Zero == [k \in BucketKeys |-> 0]

\* activities with the totals 0, 2, 3, 3, 10 and 18
Profiles ==
    { Zero,
      [Zero EXCEPT !["p_documentation"] = 1],
      [Zero EXCEPT !["p_enhancement"] = 1],
      [Zero EXCEPT !["p_documentation"] = 1, !["i_documentation"] = 1],
      [Zero EXCEPT !["p_bug"] = 2, !["i_bug"] = 2],
      [Zero EXCEPT !["p_enhancement"] = 2, !["p_documentation"] = 10] }

UserName(i) == "u" \o ToString(i)

InitScorer ==
    /\ \/ \E a \in DrawnActivities :
            participants = <<[name |-> UserName(1), activities |-> a]>>
       \/ \E n \in 0..MaxParticipants : \E as \in [1..n -> Profiles] :
            participants = [i \in 1..n |-> [name |-> UserName(i), activities |-> as[i]]]
    /\ data_collected = TRUE
    /\ pc = "idle"
    /\ page = 0
    /\ response = NoResponse
    /\ nreq = 0
    /\ received = [id \in ItemIds |-> 0]
    /\ result = NoResult

NextScorer == CalculateScores

SpecScorer == InitScorer /\ [][NextScorer]_vars

----------------------------------------------------------------------------
(* Properties of calculate_scores *)

\* the entry of a participant in the returned table
ScoreOf(name) == result.scores[IndexOf(result.scores, name)].score

\* the count of a bucket, 0 for a bucket the mapping does not have
CountOf(activities, key) == IF key \in DOMAIN activities THEN activities[key] ELSE 0

\* every count the mapping has is >= 0
NonNegative(activities) == \A k \in DOMAIN activities : activities[k] >= 0

RECURSIVE SumRates(_)
SumRates(scores) ==
    IF scores = <<>> THEN 0
    ELSE Head(scores).score["rate"] + SumRates(Tail(scores))

RECURSIVE SumOfTotals(_)
SumOfTotals(scores) ==
    IF scores = <<>> THEN 0
    ELSE Head(scores).score["total"] + SumOfTotals(Tail(scores))

AllRatesZero == \A i \in 1..Len(result.scores) : result.scores[i].score["rate"] = 0

\* C1 as stated: when the sum of all totals is > 0 the rates (in tenths) sum to
\* 100.0 within +-0.1, for any number of participants; when it is 0 every rate is 0.
C1_RateSumWithinOneTenth ==
    result.returned =>
        /\ SumOfTotals(result.scores) > 0 => Abs(SumRates(result.scores) - 1000) <= 1
        /\ SumOfTotals(result.scores) = 0 => AllRatesZero

\* C1 amended: when the sum of all totals is > 0 the rates sum to 100.0 within
\* 0.05 per participant (so within +-0.1 for up to three participants);
\* when it is 0 every rate is 0.
C1_RateSumWithinHalfTenthEach ==
    result.returned =>
        /\ SumOfTotals(result.scores) > 0 =>
              2 * Abs(SumRates(result.scores) - 1000) <= Len(result.scores)
        /\ SumOfTotals(result.scores) = 0 => AllRatesZero

\* C1 witness: five participants were scored and their rates sum to 99.8 or 100.2
C1_Witness ==
    /\ result.returned
    /\ Len(result.scores) = 5
    /\ SumOfTotals(result.scores) > 0
    /\ Abs(SumRates(result.scores) - 1000) = 2

\* the first five entries of a breakdown, without the rate
Components(score) == [k \in DOMAIN score \ {"rate"} |-> score[k]]

\* every negative or missing count replaced by 0
ClampedToZero(activities) ==
    [k \in BucketKeys |-> IF k \in DOMAIN activities /\ activities[k] >= 0
                          THEN activities[k] ELSE 0]

\* every missing count replaced by 0
MissingAsZero(activities) ==
    [k \in BucketKeys |-> IF k \in DOMAIN activities THEN activities[k] ELSE 0]

\* C3 as stated: the breakdown of a participant equals the breakdown of the same
\* participant with every negative or missing count replaced by 0.
C3_NegativeOrMissingAsZero ==
    result.returned =>
        \A i \in 1..Len(participants) :
            Components(ScoreOf(participants[i].name))
                = Breakdown(ClampedToZero(participants[i].activities))

\* C3 amended: the breakdown of a participant equals the breakdown of the same
\* participant with every missing count replaced by 0; a negative count is used as it is.
C3_MissingAsZero ==
    result.returned =>
        \A i \in 1..Len(participants) :
            Components(ScoreOf(participants[i].name))
                = Breakdown(MissingAsZero(participants[i].activities))

\* C3 witness: a participant with a missing count and without negative counts was scored
C3_Witness ==
    /\ result.returned
    /\ Len(participants) = 1
    /\ DOMAIN participants[1].activities = BucketKeys \ {"p_bug", "i_documentation"}
    /\ NonNegative(participants[1].activities)
    /\ ScoreOf(participants[1].name)["total"] > 0

\* C4: for non-negative counts p_valid >= p_fb, hence p_fb_at = p_fb and p_d_at >= 0,
\* and the `document PR` component of the participant is >= 0.
C4_ValidatedPRsCoverFeatureBug ==
    result.returned =>
        \A i \in 1..Len(participants) :
            LET a == participants[i].activities
                score == ScoreOf(participants[i].name)
                fb == CountOf(a, "p_enhancement") + CountOf(a, "p_bug")
            IN  NonNegative(a) =>
                  /\ p_valid(a) >= fb
                  /\ p_fb_at(a) = fb
                  /\ p_d_at(a) >= 0
                  /\ score["feat/bug PR"] = 3 * fb
                  /\ score["document PR"] >= 0

\* C4 witness: a participant with feature/bug PRs and more documentation PRs than the
\* cap admits was scored
C4_Witness ==
    /\ result.returned
    /\ \E i \in 1..Len(participants) :
          LET a == participants[i].activities
          IN  /\ NonNegative(a)
              /\ CountOf(a, "p_enhancement") + CountOf(a, "p_bug") = 1
              /\ CountOf(a, "p_documentation") = 4
              /\ ScoreOf(participants[i].name)["document PR"] = 6

\* C5: for non-negative counts the validated issue credit i_fb_at + i_d_at is at most
\* 4 times the validated PR credit, and a participant without counted PRs has total 0.
C5_IssueCreditCappedByPRs ==
    result.returned =>
        \A i \in 1..Len(participants) :
            LET a == participants[i].activities
                score == ScoreOf(participants[i].name)
                issues == (score["feat/bug issue"] \div 2) + score["document issue"]
                prs == (score["feat/bug PR"] \div 3) + (score["document PR"] \div 2)
            IN  NonNegative(a) =>
                  /\ issues <= 4 * prs
                  /\ issues <= 4 * p_valid(a)
                  /\ (CountOf(a, "p_enhancement") = 0 /\ CountOf(a, "p_bug") = 0
                        /\ CountOf(a, "p_documentation") = 0) => score["total"] = 0

\* C5 witness: a participant with issues and without any PR was scored
C5_Witness ==
    /\ result.returned
    /\ \E i \in 1..Len(participants) :
          LET a == participants[i].activities
          IN  /\ DOMAIN a = BucketKeys
              /\ a["p_enhancement"] = 0 /\ a["p_bug"] = 0 /\ a["p_documentation"] = 0
              /\ a["i_enhancement"] = 4 /\ a["i_documentation"] = 4

\* C6: the total of every participant is 3*p_fb_at + 2*p_d_at + 2*i_fb_at + 1*i_d_at and
\* the sum of the four components; counts {p_enhancement: 2, p_documentation: 10}
\* give the total 18.
C6_TotalIsWeightedSum ==
    result.returned =>
        \A i \in 1..Len(participants) :
            LET a == participants[i].activities
                score == ScoreOf(participants[i].name)
            IN  /\ score["total"] = 3 * p_fb_at(a) + 2 * p_d_at(a)
                                      + 2 * i_fb_at(a) + 1 * i_d_at(a)
                /\ score["total"] = score["feat/bug PR"] + score["document PR"]
                                      + score["feat/bug issue"] + score["document issue"]
                /\ a = [Zero EXCEPT !["p_enhancement"] = 2, !["p_documentation"] = 10]
                      => score["total"] = 18

\* C6 witness: the participant with two feature PRs and ten documentation PRs was scored
C6_Witness ==
    /\ result.returned
    /\ \E i \in 1..Len(participants) :
          /\ participants[i].activities
                = [Zero EXCEPT !["p_enhancement"] = 2, !["p_documentation"] = 10]
          /\ ScoreOf(participants[i].name)["document PR"] = 12

\* C7: the returned table has exactly the participants of the input, by descending
\* total, and participants with equal totals keep the order of the input.
C7_StableDescendingOrder ==
    result.returned =>
        /\ Len(result.scores) = Len(participants)
        /\ {result.scores[i].name : i \in 1..Len(result.scores)}
              = {participants[i].name : i \in 1..Len(participants)}
        /\ \A i, j \in 1..Len(result.scores) :
              i < j =>
                /\ result.scores[i].score["total"] >= result.scores[j].score["total"]
                /\ result.scores[i].score["total"] = result.scores[j].score["total"]
                      => IndexOf(participants, result.scores[i].name)
                            < IndexOf(participants, result.scores[j].name)

\* C7 witness: two participants with equal totals and different breakdowns were
\* scored behind a participant with a smaller total
C7_Witness ==
    /\ result.returned
    /\ Len(participants) = 3
    /\ S(participants[1].activities) < S(participants[2].activities)
    /\ S(participants[2].activities) = S(participants[3].activities)
    /\ participants[2].activities # participants[3].activities
    /\ result.scores[1].name = participants[2].name

\* C10: lowering one count of a participant by one never gives a larger total, and
\* of two scored participants with componentwise ordered counts the one with the
\* larger counts has the larger or equal total.
C10_TotalMonotone ==
    result.returned =>
        /\ \A i \in 1..Len(participants) :
              LET a == participants[i].activities
              IN  (DOMAIN a = BucketKeys /\ NonNegative(a)) =>
                     \A k \in BucketKeys :
                        a[k] >= 1 => S([a EXCEPT ![k] = @ - 1])
                                        <= ScoreOf(participants[i].name)["total"]
        /\ \A i, j \in 1..Len(participants) :
              LET a == participants[i].activities
                  b == participants[j].activities
              IN  (/\ DOMAIN a = BucketKeys /\ DOMAIN b = BucketKeys
                   /\ NonNegative(a)
                   /\ \A k \in BucketKeys : a[k] <= b[k])
                    => ScoreOf(participants[i].name)["total"]
                          <= ScoreOf(participants[j].name)["total"]

\* C10 witness: a participant whose issues exceed the cap of 4 * p_valid was scored
C10_Witness ==
    /\ result.returned
    /\ \E i \in 1..Len(participants) :
          LET a == participants[i].activities
          IN  /\ DOMAIN a = BucketKeys /\ NonNegative(a)
              /\ a["i_enhancement"] + a["i_bug"] > 4 * p_valid(a)
              /\ p_valid(a) > 0

----------------------------------------------------------------------------
(* Properties of collect_PRs_and_issues *)

\* C2 as stated: once a collection has failed, calculate_scores never returns a score
\* table of the participants counted before the failure.
C2_NoScoresAfterFailedCollection ==
    data_collected = FALSE => ~(result.returned /\ result.scores # <<>>)

Labels == {"enhancement", "bug", "documentation"}

\* the spellings of a label that match it without regard to case
Spellings(label) ==
    CASE label = "enhancement" -> {"enhancement", "Enhancement", "ENHANCEMENT"}
      [] label = "bug" -> {"bug", "Bug", "BUG"}
      [] label = "documentation" -> {"documentation", "Documentation", "DOCUMENTATION"}

\* occurrences of a label on an item
Occurrences(item, label) ==
    Cardinality({n \in 1..Len(item.labels) : item.labels[n] \in Spellings(label)})

AuthorOf(item) == IF item.login = NoLogin THEN "Unknown" ELSE item.login

Authors == {AuthorOf(Items[id]) : id \in ItemIds}

RECURSIVE SumOver(_, _)
SumOver(ids, f) ==
    IF ids = {} THEN 0
    ELSE LET id == CHOOSE x \in ids : TRUE
         IN  f[id] + SumOver(ids \ {id}, f)

\* label occurrences on the delivered merged pull requests of an author
MergedPROccurrences(name, label) ==
    LET own == {id \in ItemIds : /\ AuthorOf(Items[id]) = name
                                  /\ Items[id].pull_request
                                  /\ Items[id].merged_at}
        f == [id \in ItemIds |-> received[id] * Occurrences(Items[id], label)]
    IN  SumOver(own, f)

\* label occurrences on the delivered issues of an author that are open, reopened or completed
LiveIssueOccurrences(name, label) ==
    LET own == {id \in ItemIds : /\ AuthorOf(Items[id]) = name
                                  /\ ~Items[id].pull_request
                                  /\ Items[id].state_reason \in {"None", "reopened", "completed"}}
        f == [id \in ItemIds |-> received[id] * Occurrences(Items[id], label)]
    IN  SumOver(own, f)

\* the count of a bucket of an author, 0 for an author who is no participant
Bucket(name, key) ==
    IF IndexOf(participants, name) = 0 THEN 0
    ELSE participants[IndexOf(participants, name)].activities[key]

\* C8: after a collection in which every response was successful, p_L of every author
\* is the number of occurrences of L on the author's merged pull requests and i_L the
\* number of occurrences of L on the author's open, reopened or completed issues.
C8_BucketsCountQualifyingLabels ==
    (pc = "done" /\ data_collected) =>
        \A name \in Authors, label \in Labels :
            /\ Bucket(name, "p_" \o label) = MergedPROccurrences(name, label)
            /\ Bucket(name, "i_" \o label) = LiveIssueOccurrences(name, label)

\* C8 witness: a collection succeeded that delivered an unmerged pull request, a
\* not_planned issue, a merged pull request and an issue with an upper-case label
C8_Witness ==
    /\ pc = "done" /\ data_collected
    /\ \E id \in ItemIds :
          received[id] > 0 /\ Items[id].pull_request /\ ~Items[id].merged_at
    /\ \E id \in ItemIds :
          received[id] > 0 /\ Items[id].state_reason = "not_planned"
    /\ Bucket("alice", "p_bug") = 1
    /\ Bucket("bob", "i_bug") = 1

\* C9: a response that is not 200 counts no item, ends the collection and leaves
\* _data_collected False for good; a 200 response is the response to the request of
\* the current page, leaves _data_collected as it is, and the next page is requested
\* iff the response has items and a rel="next" link.
C9_AbortOnFirstFailure ==
    [][ /\ (nreq' = nreq + 1 /\ response'.status_code # 200) =>
              /\ participants' = participants
              /\ received' = received
              /\ pc' = "aborted"
              /\ data_collected' = FALSE
        /\ (nreq' = nreq + 1 /\ response'.status_code = 200) =>
              /\ data_collected' = data_collected
              /\ IF ~response'.empty /\ response'.next
                 THEN pc' = "loop" /\ page' = page + 1
                 ELSE pc' = "done" /\ page' = page
        /\ nreq' # nreq => (pc = "loop" /\ nreq' = nreq + 1)
        /\ pc # "loop" => (page' = page \/ (pc' = "loop" /\ page' = 1))
        /\ data_collected = FALSE => data_collected' = FALSE
        /\ (data_collected /\ ~data_collected') =>
              (nreq' = nreq + 1 /\ response'.status_code # 200)
      ]_vars

\* C9 witness: the second page of a collection was answered with 403 after the first
\* page was counted
C9_Witness ==
    /\ pc = "aborted"
    /\ page = 2
    /\ response.status_code = 403
    /\ participants # <<>>
    /\ data_collected = FALSE

====
